---- MODULE Spec2Model ----
(***************************************************************************)
(* Reading-progress tracker (src/index.js): the App component's bootstrap, *)
(* the subjects listener, subject creation and the Session Recorder        *)
(* (recordReading) with the Firestore transaction it runs.                 *)
(*                                                                         *)
(* Minutes are rationals in the code (durationSeconds / 60, and the        *)
(* two-decimal value kept in the history record).  The model counts every  *)
(* amount of minutes in units of 1/300 minute, the least unit in which     *)
(* both one second (5 units) and one hundredth of a minute (3 units) are   *)
(* whole, so that all arithmetic of the code is exact integer arithmetic.  *)
(***************************************************************************)
EXTENDS Integers, Sequences, FiniteSets, TLC

\* ------------------------------------------------------------------
\* Bounds of the model
\* ------------------------------------------------------------------
\* number of recordReading invocations followed
MaxCalls == 1
\* number of writes followed where the writes are followed on their own
MaxWrites == 2
\* the seconds the timer is followed for
MaxTime == 1
\* the last day the clock is followed to
MaxDay == 3
\* longest chapter list typed into the subjects view
MaxChapters == 2

CallIds == 1..MaxCalls
\* one invocation more, for the statements about two overlapping calls
PairIds == 1..(MaxCalls + 1)
SubjIds == {"s1", "s2"}
ChapterNames == {"Algebra", "Sets"}
SubjectNames == {"Math"}
Uids == {"u1"}
\* durationSeconds passed to recordReading: below the threshold, and a
\* duration whose minutes (1.666...) have more than two decimals
Durations == {0, 100}

NoUser == "null"
NoError == "none"

\* ------------------------------------------------------------------
\* Documents
\* ------------------------------------------------------------------
Chapter(n, t, r, c) == [name |-> n, total |-> t, read |-> r, is_completed |-> c]

NoDoc == [exists |-> FALSE, name |-> "", chapters |-> <<>>]
SubjectDoc(n, chs) == [exists |-> TRUE, name |-> n, chapters |-> chs]

\* the settings document 'goals': absent before the first saveGoals, or
\* a map from field names to minutes
NoGoals == [exists |-> FALSE, data |-> << >>]
GoalsDoc(data) == [exists |-> TRUE, data |-> data]

Min(n) == 300 * n

\* Subject documents the store may already hold when the session starts:
\* the documents of earlier sessions.  The first is the subject of the
\* documented example (target 100 minutes, 40 read); the second has a
\* chapter that 100 seconds more complete (target 2 minutes, 1 read) and
\* a chapter without a target.
SeedDocs ==
    { NoDoc,
      SubjectDoc("Math", << Chapter("Algebra", Min(100), Min(40), FALSE) >>),
      SubjectDoc("Math", << Chapter("Algebra", Min(2), Min(1), FALSE),
                            Chapter("Sets", 0, 0, FALSE) >>) }

VARIABLES
    config,         \* firebaseConfig has keys (line 11)
    db,             \* App state db: TRUE once setDb ran
    user,           \* App state user: a uid, or NoUser
    loading,        \* App state loading
    error,          \* App state error: NoError or the kind of error
    bootPc,         \* position of the initialization effect
    authUser,       \* the identity provider's current user ("unset" before
                    \* the auth listener was first called)
    store,          \* the user's collections in the document store
    subjects,       \* App state subjects: the last snapshot delivered
    calls,          \* the recordReading invocations
    history,        \* App state history: the last snapshot, latest first
    settings,       \* App state settings: field name -> minutes
    goalsSeen,      \* the settings listener's last delivered snapshot
                    \* (a sequence of one document, empty before the first)
    now,            \* the clock (new Date()), in half days
    statsAt,        \* the clock reading of the last evaluation of stats
    view,           \* the state of the mounted TrackingView
    awaits,         \* the handleRecord calls waiting for recordReading
    wrote,          \* the last write applied, where the writes of the
                    \* program are followed on their own
    currentView,    \* App state currentView
    admin           \* the AdminPanelView: the user its effect last ran
                    \* for, and the users a fetch was issued for

vars == << config, db, user, loading, error, bootPc, authUser, store, subjects,
           calls, history, settings, goalsSeen, now, statsAt, view, awaits,
           wrote, currentView, admin >>

bootVars == << config, db, user, loading, error, bootPc, authUser >>

\* the state of the listeners other than the subjects listener, of the
\* statistics and of the tracking view
mirrorVars == << history, settings, goalsSeen >>
clockVars == << now, statsAt >>
viewVars == << view, awaits >>
fnVars == << wrote >>
navVars == << currentView, admin >>

\* ------------------------------------------------------------------
\* recordReading: pure parts
\* ------------------------------------------------------------------

\* the guard without its duration test
IsNoOpNoThreshold(d, u, seconds) == (~d) \/ u = NoUser

\* line 208: if (!db || !currentUserId || durationSeconds < 1) return;
IsNoOp(d, u, seconds) == (~d) \/ u = NoUser \/ seconds < 1

\* line 209: durationSeconds / 60, in units of 1/300 minute
DurationMinutes(seconds) == 5 * seconds

\* line 219: parseFloat(x.toFixed(2)); x in units of 1/300 minute, the
\* result too.  One hundredth is 3 units; toFixed rounds to the nearest
\* hundredth (x is a whole number of seconds, so there is never a tie).
ToFixed2(x) == 3 * ((2 * x + 3) \div 6)

\* line 217: subjects.find(s => s.id === subjectId)?.name || 'N/A'
SubjectNameOf(subs, subjectId) ==
    IF subjectId \in DOMAIN subs /\ subs[subjectId].exists
                                 /\ subs[subjectId].name # ""
    THEN subs[subjectId].name ELSE "N/A"

\* lines 215-222: the history record handed to transaction.set; date is
\* the reading of the clock (new Date(), line 220)
HistoryRecord(subjectId, subjectName, chapterName, durationMinutes, uid, date) ==
    [ subjectId |-> subjectId,
      subjectName |-> subjectName,
      chapterName |-> chapterName,
      durationMinutes |-> ToFixed2(durationMinutes),
      date |-> date,
      userId |-> uid ]

\* a callback without the test of the name
UpdatedChapterAnyName(c, chapterName, durationMinutes) ==
    [c EXCEPT !.read = c.read + durationMinutes,
              !.is_completed = c.read + durationMinutes >= c.total]

\* a callback that stores the duration in place of the sum
UpdatedChapterOverwrites(c, chapterName, durationMinutes) ==
    IF c.name = chapterName
    THEN [c EXCEPT !.read = durationMinutes,
                   !.is_completed = durationMinutes >= c.total]
    ELSE c

\* lines 230-236: the callback of subjectData.chapters.map
UpdatedChapter(c, chapterName, durationMinutes) ==
    IF c.name = chapterName
    THEN LET newReadTime == c.read + durationMinutes
             isCompleted == newReadTime >= c.total
         IN  [c EXCEPT !.read = newReadTime, !.is_completed = isCompleted]
    ELSE c

\* lines 229-237: subjectData.chapters.map(...)
UpdatedChapters(chapters, chapterName, durationMinutes) ==
    [i \in DOMAIN chapters |->
        UpdatedChapter(chapters[i], chapterName, durationMinutes)]

\* ------------------------------------------------------------------
\* The document store and its transactions (firebase/firestore)
\* ------------------------------------------------------------------
\* store.subjects : the subjects collection, document id -> document
\* store.history  : the history collection, in order of commit; each entry
\*                  is [id, data]
\* store.goals    : the settings document 'goals'
\* store.updates  : the ids of the history documents whose transaction
\*                  also wrote a Subject document (the store's write log,
\*                  kept for the statements below; the program never
\*                  reads it)

\* a reference to one fixed document, as doc(db, path, 'goals') is
HistoryRefFixed(k) == 0

\* line 214: doc(collection(db, .../history)) - a fresh document id; the
\* k-th invocation's reference is named k (the documents of earlier
\* sessions have the ids 0, -1, ...)
HistoryRef(k) == k

\* line 215: transaction.set(historyRef, data) buffers a write
SetOp(ref, data) ==
    [op |-> "set", ref |-> ref, data |-> data, subjectId |-> "", chapters |-> <<>>]

\* line 238: transaction.update(subjectRef, {chapters}) buffers a write
UpdateOp(ref, subjectId, chapters) ==
    [op |-> "update", ref |-> ref, data |-> <<>>, subjectId |-> subjectId,
     chapters |-> chapters]

\* a store that lets a transaction read after it has buffered a write
GetNeverRejected(mutations) == FALSE

\* line 226: transaction.get(subjectRef).  The Firestore SDK rejects a read
\* issued once the transaction has buffered a write ("Firestore
\* transactions require all reads to be executed before all writes", code
\* invalid-argument); the error is not retryable, so runTransaction rejects
\* with it.
GetRejected(mutations) == Len(mutations) > 0

\* one buffered write applied to the store; set creates the document
\* ref, or overwrites it if the collection has a document of that id
ApplyOp(st, m) ==
    IF m.op = "set"
    THEN IF \E i \in DOMAIN st.history : st.history[i].id = m.ref
         THEN [st EXCEPT !.history =
                  [i \in DOMAIN @ |-> IF @[i].id = m.ref
                                      THEN [id |-> m.ref, data |-> m.data]
                                      ELSE @[i]]]
         ELSE [st EXCEPT !.history = Append(@, [id |-> m.ref, data |-> m.data])]
    ELSE [st EXCEPT !.subjects[m.subjectId].chapters = m.chapters,
                    !.updates = @ \cup {m.ref}]

RECURSIVE ApplyAll(_, _)
ApplyAll(st, mutations) ==
    IF mutations = << >> THEN st
    ELSE ApplyAll(ApplyOp(st, Head(mutations)), Tail(mutations))

\* lines 212-240: runTransaction resolves - every buffered write is
\* committed in one step
Commit(st, mutations) == ApplyAll(st, mutations)

\* a rejection that leaves the first buffered write in the store, as a
\* history insert made outside the transaction would be
RollbackKeepsFirst(st, mutations) ==
    IF mutations = << >> THEN st ELSE ApplyOp(st, Head(mutations))

\* lines 212-240: runTransaction rejects - the buffered writes are dropped
Rollback(st, mutations) == st

\* lines 214-222: the write buffered before the read
HistoryWrites(k, c) ==
    << SetOp(HistoryRef(k),
             HistoryRecord(c.subjectId, c.subjectName, c.chapterName,
                           c.durationMinutes, c.userId, now)) >>

\* lines 227-239: the write buffered once the read has answered with the
\* Subject document of store st
SubjectWrites(k, c, st) ==
    IF st.subjects[c.subjectId].exists
    THEN << UpdateOp(HistoryRef(k), c.subjectId,
                     UpdatedChapters(st.subjects[c.subjectId].chapters,
                                     c.chapterName, c.durationMinutes)) >>
    ELSE << >>

\* lines 213-239: the update function, run on the store as it is.  It
\* yields the buffered writes and the error that ended it, if any.
UpdateFunction(k, c, st) ==
    IF GetRejected(HistoryWrites(k, c))
    THEN [error |-> "invalid-argument", mutations |-> HistoryWrites(k, c)]
    ELSE [error |-> NoError,
          mutations |-> HistoryWrites(k, c) \o SubjectWrites(k, c, st)]

\* lines 178-179: setDoc on a new document of the subjects collection
SaveSubject(st, id, subjectName, chaptersData) ==
    [st EXCEPT !.subjects[id] = SubjectDoc(subjectName, chaptersData)]

\* { ...a, ...b }: the fields of a, overridden and extended by those of b
Spread(a, b) ==
    [f \in (DOMAIN a) \cup (DOMAIN b) |-> IF f \in DOMAIN b THEN b[f] ELSE a[f]]

\* lines 193-196: setDoc(goalsDoc, {...}, { merge: true })
SaveGoals(st, dailyGoal, weeklyGoal) ==
    [st EXCEPT !.goals =
        GoalsDoc(Spread(@.data, [dailyGoalMinutes |-> dailyGoal,
                                 weeklyGoalMinutes |-> weeklyGoal]))]

\* a catch that falls through to the return true
ResultAlwaysTrue(err) == "true"

\* lines 241-245: return true, or false from the catch
ResultOf(err) == IF err = NoError THEN "true" ELSE "false"

\* ------------------------------------------------------------------
\* Subjects view
\* ------------------------------------------------------------------
\* lines 630-635: chaptersInput.split(',').map(...).filter(c => c.name !== '')
\* applied to the list of trimmed names between the commas
RECURSIVE ChaptersArray(_)
ChaptersArray(names) ==
    IF names = << >> THEN << >>
    ELSE IF Head(names) = "" THEN ChaptersArray(Tail(names))
    ELSE << Chapter(Head(names), 0, 0, FALSE) >> \o ChaptersArray(Tail(names))

ChapterInputs ==
    UNION { [1..n -> ChapterNames \cup {""}] : n \in 0..MaxChapters }

HasChapter(doc, chapterName) ==
    \E i \in DOMAIN doc.chapters : doc.chapters[i].name = chapterName

\* the chapter chapterName of document doc (the first of that name)
ChapterOf(doc, chapterName) ==
    doc.chapters[CHOOSE i \in DOMAIN doc.chapters :
        /\ doc.chapters[i].name = chapterName
        /\ \A j \in DOMAIN doc.chapters :
               doc.chapters[j].name = chapterName => i <= j]

\* ------------------------------------------------------------------
\* Initial state
\* ------------------------------------------------------------------
IdleCall ==
    [ pc |-> "idle", subjectId |-> "", chapterName |-> "",
      durationSeconds |-> 0, durationMinutes |-> 0, subjectName |-> "",
      userId |-> NoUser, mutations |-> << >>, error |-> NoError,
      result |-> "none", existed |-> FALSE, preRead |-> 0, preLen |-> 0 ]

\* line 83: useState({ dailyGoalMinutes: 60, weeklyGoalMinutes: 420 })
DefaultSettings == [dailyGoalMinutes |-> 60, weeklyGoalMinutes |-> 420]

\* lines 496-500: the state a TrackingView is mounted with (the message
\* shown is not followed).  sessionCalls
\* counts the recordReading invocations of the current start-to-stop
\* interval and ticked the seconds the interval of lines 505-507 has
\* fired for in all (both kept for the statements below; the view never
\* reads them).
InitialView ==
    [ time |-> 0, isRunning |-> FALSE, selectedSubjectId |-> "",
      selectedChapterName |-> "", sessionCalls |-> 0, ticked |-> 0 ]

\* no handleRecord waits for this invocation
NoAwait == [pc |-> "none", mounted |-> FALSE]

\* no write applied
NoWrite == [kind |-> "none", n |-> 0, subjectId |-> "", chapterName |-> "",
            durationSeconds |-> 0]

\* A reading of the clock is a number of half days: 2 * day is the local
\* midnight that starts the day, 2 * day + 1 its midday.  Day 0 is Sunday
\* 29 September 2024, so days up to 1 lie in September and the later ones
\* in October.
Noon(day) == 2 * day + 1
\* the first reading of the clock
FirstNow == Noon(0)

\* no AdminPanelView is mounted and no fetch was issued
NoAdminView == [ranFor |-> "none", issuedFor |-> {}]

\* the state, at construction, of the parts the claims about the
\* recorder's transaction do not follow
RestInit(ids) ==
    /\ history = << >>
    /\ settings = DefaultSettings
    /\ goalsSeen = << >>
    /\ now = FirstNow
    /\ statsAt = FirstNow
    /\ view = InitialView
    /\ awaits = [k \in ids |-> NoAwait]
    /\ wrote = NoWrite
    /\ admin = NoAdminView

InitWith(ids) ==
    /\ config \in BOOLEAN
    /\ db = FALSE
    /\ user = NoUser
    /\ loading = TRUE
    /\ error = NoError
    /\ bootPc = "start"
    /\ authUser = "unset"
    /\ \E d \in SeedDocs :
          store = [ subjects |-> [s \in SubjIds |-> IF s = "s1" THEN d ELSE NoDoc],
                    history |-> << >>,
                    goals |-> NoGoals,
                    updates |-> {} ]
    /\ subjects = [s \in SubjIds |-> NoDoc]
    /\ calls = [k \in ids |-> IdleCall]
    /\ RestInit(ids)
    /\ currentView = "dashboard"

Init == InitWith(CallIds)

InitPair == InitWith(PairIds)

\* ------------------------------------------------------------------
\* 1. Initialization and authentication (lines 91-130)
\* ------------------------------------------------------------------
\* lines 92-96: no configuration
InitNoConfig ==
    /\ bootPc = "start"
    /\ ~config
    /\ error' = "config"
    /\ loading' = FALSE
    /\ bootPc' = "done"
    /\ UNCHANGED << config, db, user, authUser, store, subjects, calls >>
    /\ UNCHANGED << mirrorVars, clockVars, viewVars, fnVars, navVars >>

\* lines 98-104, 123: the SDK initializes and the auth listener is set
InitOk ==
    /\ bootPc = "start"
    /\ config
    /\ db' = TRUE
    /\ bootPc' = "listening"
    /\ UNCHANGED << config, user, loading, error, authUser, store, subjects,
                    calls >>
    /\ UNCHANGED << mirrorVars, clockVars, viewVars, fnVars, navVars >>

\* lines 126-129: initializeApp / getAuth / getFirestore throws
InitThrows ==
    /\ bootPc = "start"
    /\ config
    /\ error' = "init"
    /\ loading' = FALSE
    /\ bootPc' = "done"
    /\ UNCHANGED << config, db, user, authUser, store, subjects, calls >>
    /\ UNCHANGED << mirrorVars, clockVars, viewVars, fnVars, navVars >>

\* lines 105-110: the auth listener is first called, with the user an
\* earlier session left signed in
AuthUser(u) ==
    /\ bootPc = "listening"
    /\ authUser = "unset"
    /\ authUser' = u
    /\ user' = u
    /\ loading' = FALSE
    /\ UNCHANGED << config, db, error, bootPc, store, subjects, calls >>
    /\ UNCHANGED << mirrorVars, clockVars, viewVars, fnVars, navVars >>

\* lines 110-117: the auth listener is first called, with null, and starts
\* a sign-in (the app has no sign-out, so null is not delivered later)
AuthNull ==
    /\ bootPc = "listening"
    /\ authUser = "unset"
    /\ authUser' = NoUser
    /\ bootPc' = "signingIn"
    /\ UNCHANGED << config, db, user, loading, error, store, subjects, calls >>
    /\ UNCHANGED << mirrorVars, clockVars, viewVars, fnVars, navVars >>

\* lines 113-117, 105-109: the sign-in resolves and the auth listener is
\* called with the new user
SignInResolves(u) ==
    /\ bootPc = "signingIn"
    /\ bootPc' = "listening"
    /\ authUser' = u
    /\ user' = u
    /\ loading' = FALSE
    /\ UNCHANGED << config, db, error, store, subjects, calls >>
    /\ UNCHANGED << mirrorVars, clockVars, viewVars, fnVars, navVars >>

\* a catch that sets the error and leaves loading as it is
SignInRejectsStillLoading ==
    /\ bootPc = "signingIn"
    /\ error' = "signin"
    /\ bootPc' = "listening"
    /\ UNCHANGED << config, db, user, loading, authUser, store, subjects,
                    calls >>
    /\ UNCHANGED << mirrorVars, clockVars, viewVars, fnVars, navVars >>

\* lines 118-121: the sign-in rejects
SignInRejects ==
    /\ bootPc = "signingIn"
    /\ error' = "signin"
    /\ loading' = FALSE
    /\ bootPc' = "listening"
    /\ UNCHANGED << config, db, user, authUser, store, subjects, calls >>
    /\ UNCHANGED << mirrorVars, clockVars, viewVars, fnVars, navVars >>

\* views rendered whatever the error
UiRenderedDespiteError == ~loading

\* lines 309-327: the views (and so their handlers) are rendered only
\* when the app is neither loading nor in the error state
UiRendered == ~loading /\ error = NoError

\* ------------------------------------------------------------------
\* 2. Real-time listener of the subjects collection (lines 135-143)
\* ------------------------------------------------------------------
\* setSubjects renders App again, and stats (a memo on history and
\* subjects, line 302) is evaluated anew
OnSubjectsSnapshot ==
    /\ db /\ user # NoUser
    /\ subjects # store.subjects
    /\ subjects' = store.subjects
    /\ UNCHANGED << bootVars, store, calls >>
    /\ statsAt' = now
    /\ UNCHANGED << mirrorVars, now, viewVars, fnVars, navVars >>

\* ------------------------------------------------------------------
\* 3. saveSubject, called by handleAddSubject (lines 175-184, 628-640)
\* ------------------------------------------------------------------
\* the store assigns the new document an unused id (the model has the ids
\* of SubjIds to give).  A rejected setDoc is only logged by the catch and
\* changes nothing.
HandleAddSubject(newSubjectName, chaptersInput) ==
    /\ UiRendered
    /\ newSubjectName # ""
    /\ db /\ user # NoUser
    /\ \E x \in SubjIds : ~store.subjects[x].exists
    /\ LET id == CHOOSE x \in SubjIds : ~store.subjects[x].exists
       IN  store' = SaveSubject(store, id, newSubjectName,
                                ChaptersArray(chaptersInput))
    /\ UNCHANGED << bootVars, subjects, calls >>
    /\ UNCHANGED << mirrorVars, clockVars, viewVars, fnVars, navVars >>

\* ------------------------------------------------------------------
\* 4. recordReading (lines 207-246)
\* ------------------------------------------------------------------
\* lines 207-212: the call; below the threshold it returns undefined,
\* otherwise runTransaction is started
Invoked(k, subjectId, chapterName, durationSeconds) ==
    [calls EXCEPT ![k] =
          [ @ EXCEPT
            !.subjectId = subjectId,
            !.chapterName = chapterName,
            !.durationSeconds = durationSeconds,
            !.existed = store.subjects[subjectId].exists
                        /\ HasChapter(store.subjects[subjectId], chapterName),
            !.preRead = IF HasChapter(store.subjects[subjectId], chapterName)
                        THEN ChapterOf(store.subjects[subjectId], chapterName).read
                        ELSE 0,
            !.preLen = Len(store.history),
            !.pc = IF IsNoOp(db, user, durationSeconds) THEN "done" ELSE "pending",
            !.result = IF IsNoOp(db, user, durationSeconds)
                       THEN "undefined" ELSE "none",
            !.durationMinutes = IF IsNoOp(db, user, durationSeconds)
                                THEN 0 ELSE DurationMinutes(durationSeconds),
            !.subjectName = IF IsNoOp(db, user, durationSeconds)
                            THEN "" ELSE SubjectNameOf(subjects, subjectId),
            !.userId = IF IsNoOp(db, user, durationSeconds) THEN NoUser ELSE user ]]

\* a call of recordReading made by a caller the model does not follow
RecordReading(k, subjectId, chapterName, durationSeconds) ==
    /\ UiRendered
    /\ calls[k].pc = "idle"
    /\ k > 1 => calls[k - 1].pc # "idle"
    /\ calls' = Invoked(k, subjectId, chapterName, durationSeconds)
    /\ UNCHANGED << bootVars, store, subjects >>
    /\ UNCHANGED << mirrorVars, clockVars, viewVars, fnVars, navVars >>

\* lines 212-240: runTransaction runs the update function and settles
TxnAttempt(k) ==
    /\ calls[k].pc = "pending"
    /\ LET out == UpdateFunction(k, calls[k], store)
       IN  /\ calls' = [calls EXCEPT ![k].pc = "settled",
                                     ![k].mutations = out.mutations,
                                     ![k].error = out.error]
           /\ store' = IF out.error = NoError
                       THEN Commit(store, out.mutations)
                       ELSE Rollback(store, out.mutations)
    /\ UNCHANGED << bootVars, subjects >>
    /\ UNCHANGED << mirrorVars, clockVars, viewVars, fnVars, navVars >>

\* lines 241-245: the await returns or throws into the catch
RecordReadingReturn(k) ==
    /\ calls[k].pc = "settled"
    /\ calls' = [calls EXCEPT ![k].pc = "done",
                              ![k].result = ResultOf(calls[k].error)]
    /\ UNCHANGED << bootVars, store, subjects >>
    /\ UNCHANGED << mirrorVars, clockVars, viewVars, fnVars, navVars >>

Next ==
    \/ InitNoConfig
    \/ InitOk
    \/ InitThrows
    \/ \E u \in Uids : AuthUser(u)
    \/ AuthNull
    \/ \E u \in Uids : SignInResolves(u)
    \/ SignInRejects
    \/ OnSubjectsSnapshot
    \/ \E n \in SubjectNames, ci \in ChapterInputs : HandleAddSubject(n, ci)
    \/ \E k \in DOMAIN calls, s \in SubjIds, c \in ChapterNames, d \in Durations :
          RecordReading(k, s, c, d)
    \/ \E k \in DOMAIN calls : TxnAttempt(k)
    \/ \E k \in DOMAIN calls : RecordReadingReturn(k)

Spec == Init /\ [][Next]_vars

\* the same program, followed for one invocation more
SpecPair == InitPair /\ [][Next]_vars

\* ------------------------------------------------------------------
\* 5. The writes of the program, followed on their own
\* ------------------------------------------------------------------
\* The store under the writes the program issues (saveSubject, saveGoals
\* and the two writes of recordReading), each applied as the code builds
\* it from the documents it is given: the write of lines 227-238 is built
\* from the Subject document the read of line 226 answers with.  The
\* store starts with documents of earlier sessions.

\* the user is signed in and the views are rendered
SignedIn ==
    /\ config = TRUE
    /\ db = TRUE
    /\ \E u \in Uids : user = u /\ authUser = u
    /\ loading = FALSE
    /\ error = NoError
    /\ bootPc = "listening"

\* a history document of an earlier session: 45 minutes of Algebra
OldRecord ==
    [ id |-> 0,
      data |-> HistoryRecord("s1", "Math", "Algebra",
                             DurationMinutes(45 * 60), "u1", FirstNow) ]

InitWrites ==
    /\ SignedIn
    /\ \E d1 \in SeedDocs, d2 \in {NoDoc, SubjectDoc("Art", << >>)},
          h \in {<< >>, << OldRecord >>},
          g \in {NoGoals, GoalsDoc([dailyGoalMinutes |-> 30])} :
          store = [ subjects |-> [s \in SubjIds |-> IF s = "s1" THEN d1 ELSE d2],
                    history |-> h,
                    goals |-> g,
                    updates |-> {} ]
    /\ subjects = store.subjects
    /\ calls = [k \in CallIds |-> IdleCall]
    /\ RestInit(CallIds)
    /\ currentView = "dashboard"

\* the invocation recordReading(subjectId, chapterName, durationSeconds),
\* as lines 209 and 217 fill it in
Invocation(subjectId, chapterName, durationSeconds) ==
    [ IdleCall EXCEPT
        !.subjectId = subjectId,
        !.chapterName = chapterName,
        !.durationSeconds = durationSeconds,
        !.durationMinutes = DurationMinutes(durationSeconds),
        !.subjectName = SubjectNameOf(subjects, subjectId),
        !.userId = user ]

\* lines 208-239: the writes of one recordReading, none below the
\* threshold
RecorderWrites(subjectId, chapterName, durationSeconds) ==
    /\ wrote.n < MaxWrites
    /\ LET k == wrote.n + 1
           c == Invocation(subjectId, chapterName, durationSeconds)
       IN  store' = IF IsNoOp(db, user, durationSeconds)
                    THEN store
                    ELSE Commit(store, HistoryWrites(k, c)
                                       \o SubjectWrites(k, c, store))
    /\ wrote' = [ kind |-> "record", n |-> wrote.n + 1, subjectId |-> subjectId,
                  chapterName |-> chapterName,
                  durationSeconds |-> durationSeconds ]
    /\ UNCHANGED << bootVars, subjects, calls, mirrorVars, clockVars, viewVars,
                    navVars >>

\* lines 175-184: the write of saveSubject
SaveSubjectWrites(subjectName, chaptersInput) ==
    /\ wrote.n < MaxWrites
    /\ \E x \in SubjIds : ~store.subjects[x].exists
    /\ LET id == CHOOSE x \in SubjIds : ~store.subjects[x].exists
       IN  store' = SaveSubject(store, id, subjectName,
                                ChaptersArray(chaptersInput))
    /\ wrote' = [NoWrite EXCEPT !.kind = "subject", !.n = wrote.n + 1]
    /\ UNCHANGED << bootVars, subjects, calls, mirrorVars, clockVars, viewVars,
                    navVars >>

\* lines 189-196: the write of saveGoals
SaveGoalsWrites(dailyGoal, weeklyGoal) ==
    /\ wrote.n < MaxWrites
    /\ store' = SaveGoals(store, dailyGoal, weeklyGoal)
    /\ wrote' = [NoWrite EXCEPT !.kind = "goals", !.n = wrote.n + 1]
    /\ UNCHANGED << bootVars, subjects, calls, mirrorVars, clockVars, viewVars,
                    navVars >>

\* goals typed into the goals view
GoalInputs == {30, 200}

NextWrites ==
    \/ \E s \in SubjIds, c \in ChapterNames, d \in Durations :
          RecorderWrites(s, c, d)
    \/ \E n \in SubjectNames, ci \in ChapterInputs : SaveSubjectWrites(n, ci)
    \/ \E d \in GoalInputs, w \in GoalInputs : SaveGoalsWrites(d, w)

SpecWrites == InitWrites /\ [][NextWrites]_vars

\* ------------------------------------------------------------------
\* 6. The tracking view (lines 495-616)
\* ------------------------------------------------------------------
\* the subject selected, as line 546 finds it in the App state
CurrentSubject == subjects[view.selectedSubjectId]

\* line 547: the chapters offered by the chapter select
ChapterList ==
    IF view.selectedSubjectId # "" /\ CurrentSubject.exists
    THEN {CurrentSubject.chapters[i].name : i \in DOMAIN CurrentSubject.chapters}
    ELSE {}

\* lines 559-563: the subject select changes; the chapter is cleared
SelectSubject(s) ==
    /\ UiRendered
    /\ IF s = "" THEN TRUE ELSE subjects[s].exists
    /\ s # view.selectedSubjectId
    /\ view' = [view EXCEPT !.selectedSubjectId = s, !.selectedChapterName = ""]
    /\ UNCHANGED << bootVars, store, subjects, calls, awaits >>
    /\ UNCHANGED << mirrorVars, clockVars, fnVars, navVars >>

\* lines 573-577: the chapter select changes (disabled without a subject)
SelectChapter(c) ==
    /\ UiRendered
    /\ view.selectedSubjectId # ""
    /\ c = "" \/ c \in ChapterList
    /\ c # view.selectedChapterName
    /\ view' = [view EXCEPT !.selectedChapterName = c]
    /\ UNCHANGED << bootVars, store, subjects, calls, awaits >>
    /\ UNCHANGED << mirrorVars, clockVars, fnVars, navVars >>

\* lines 502-512: the interval fires while the timer runs
Tick ==
    /\ UiRendered
    /\ view.isRunning
    /\ view.ticked < MaxTime
    /\ view' = [view EXCEPT !.time = @ + 1, !.ticked = @ + 1]
    /\ UNCHANGED << bootVars, store, subjects, calls, awaits >>
    /\ UNCHANGED << mirrorVars, clockVars, fnVars, navVars >>

\* a Stop that leaves the timer running
StoppedStillRunning(v) == v

\* line 520: setIsRunning(false)
Stopped(v) == [v EXCEPT !.isRunning = FALSE]

\* a button that is always enabled, with a handler that never returns early
CanStartStopAlways == TRUE

\* lines 514-516, 596: the button is disabled, and the handler returns,
\* unless a subject and a chapter are selected
CanStartStop == view.selectedSubjectId # "" /\ view.selectedChapterName # ""

\* lines 523-525: Start
HandleStart ==
    /\ UiRendered
    /\ CanStartStop
    /\ ~view.isRunning
    /\ view' = [view EXCEPT !.isRunning = TRUE, !.sessionCalls = 0]
    /\ UNCHANGED << bootVars, store, subjects, calls, awaits >>
    /\ UNCHANGED << mirrorVars, clockVars, fnVars, navVars >>

\* lines 519-522, 530-533: Stop with nothing on the timer; handleRecord
\* returns before recordReading
HandleStopZero ==
    /\ UiRendered
    /\ CanStartStop
    /\ view.isRunning
    /\ view.time = 0
    /\ view' = Stopped(view)
    /\ UNCHANGED << bootVars, store, subjects, calls, awaits >>
    /\ UNCHANGED << mirrorVars, clockVars, fnVars, navVars >>

\* lines 519-522, 530-536: Stop; handleRecord calls recordReading with
\* the selection and the time of this render, and waits for its result
HandleStopRecord(k) ==
    /\ UiRendered
    /\ CanStartStop
    /\ view.isRunning
    /\ view.time # 0
    /\ calls[k].pc = "idle"
    /\ k > 1 => calls[k - 1].pc # "idle"
    /\ calls' = Invoked(k, view.selectedSubjectId, view.selectedChapterName,
                        view.time)
    /\ awaits' = [awaits EXCEPT ![k] = [pc |-> "waiting", mounted |-> TRUE]]
    /\ view' = [Stopped(view) EXCEPT !.sessionCalls = @ + 1]
    /\ UNCHANGED << bootVars, store, subjects >>
    /\ UNCHANGED << mirrorVars, clockVars, fnVars, navVars >>

\* a continuation that clears the timer whatever the result
TimeAfterSaveCleared(success, time) == 0

\* lines 538-543: setTime(0) if success, else the time stays
TimeAfterSave(success, time) == IF success THEN 0 ELSE time

\* lines 536-543: the await of handleRecord resumes with the result of
\* recordReading; its setTime acts on the view that called it, if that is
\* still mounted
HandleRecordResume(k) ==
    /\ awaits[k].pc = "waiting"
    /\ calls[k].pc = "done"
    /\ awaits' = [awaits EXCEPT ![k].pc = "finished"]
    /\ view' = IF awaits[k].mounted
               THEN [view EXCEPT !.time =
                        TimeAfterSave(calls[k].result = "true", @)]
               ELSE view
    /\ UNCHANGED << bootVars, store, subjects, calls >>
    /\ UNCHANGED << mirrorVars, clockVars, fnVars, navVars >>

\* lines 604-606: the reset button
HandleReset ==
    /\ UiRendered
    /\ view.time # 0 \/ view.isRunning
    /\ view' = [view EXCEPT !.time = 0, !.isRunning = FALSE]
    /\ UNCHANGED << bootVars, store, subjects, calls, awaits >>
    /\ UNCHANGED << mirrorVars, clockVars, fnVars, navVars >>

\* lines 340-345, 1003-1026: the user goes to another view and comes back;
\* the TrackingView is mounted anew with the state of lines 496-500, and
\* the handleRecord calls of the view that was unmounted keep waiting
Remount ==
    /\ UiRendered
    /\ [view EXCEPT !.ticked = 0] # InitialView
    /\ view' = [InitialView EXCEPT !.ticked = view.ticked]
    /\ awaits' = [k \in DOMAIN awaits |-> [awaits[k] EXCEPT !.mounted = FALSE]]
    /\ UNCHANGED << bootVars, store, subjects, calls >>
    /\ UNCHANGED << mirrorVars, clockVars, fnVars, navVars >>

\* the user is signed in, the store holds a subject of an earlier session
\* with two chapters and the subjects listener has delivered it
InitTimer ==
    /\ SignedIn
    /\ store = [ subjects |-> [s \in SubjIds |->
                      IF s = "s1"
                      THEN SubjectDoc("Math",
                               << Chapter("Algebra", Min(2), Min(1), FALSE),
                                  Chapter("Sets", 0, 0, FALSE) >>)
                      ELSE NoDoc],
                history |-> << >>,
                goals |-> NoGoals,
                updates |-> {} ]
    /\ subjects = store.subjects
    /\ calls = [k \in PairIds |-> IdleCall]
    /\ RestInit(PairIds)
    /\ currentView = "tracking"

NextTimer ==
    \/ \E s \in SubjIds \cup {""} : SelectSubject(s)
    \/ \E c \in ChapterNames \cup {""} : SelectChapter(c)
    \/ Tick
    \/ HandleStart
    \/ HandleStopZero
    \/ \E k \in DOMAIN calls : HandleStopRecord(k)
    \/ \E k \in DOMAIN calls : TxnAttempt(k)
    \/ \E k \in DOMAIN calls : RecordReadingReturn(k)
    \/ \E k \in DOMAIN calls : HandleRecordResume(k)
    \/ HandleReset
    \/ Remount

SpecTimer == InitTimer /\ [][NextTimer]_vars

\* ------------------------------------------------------------------
\* 7. Statistics (lines 253-302) and the history listener (lines 145-150)
\* ------------------------------------------------------------------
DayOf(t) == t \div 2

\* Date.prototype.setHours(0, 0, 0, 0): local midnight of the same day
SetHours0(t) == 2 * DayOf(t)

\* the first day of the month of day d
FirstOfMonth(d) == IF d <= 1 THEN -28 ELSE 2

\* Date.prototype.getDate: the day of the month
GetDate(t) == DayOf(t) - FirstOfMonth(DayOf(t)) + 1

\* Date.prototype.getDay: the day of the week, 0 for Sunday
GetDay(t) == DayOf(t) % 7

\* a setDate that stops at the first day of the month
SetDateClamped(t, n) ==
    2 * (FirstOfMonth(DayOf(t)) + (IF n < 1 THEN 1 ELSE n) - 1) + (t % 2)

\* Date.prototype.setDate(n): day n of the month of t, counted on into
\* the neighbouring months when n is not a day of that month; the time of
\* day is kept
SetDate(t, n) == 2 * (FirstOfMonth(DayOf(t)) + n - 1) + (t % 2)

\* Math.round on an amount of minutes (units of 1/300 minute)
Round(x) == 300 * ((x + 150) \div 300)

\* reduce((sum, record) => sum + record.durationMinutes, 0)
RECURSIVE SumMinutes(_)
SumMinutes(records) ==
    IF records = << >> THEN 0
    ELSE Head(records).data.durationMinutes + SumMinutes(Tail(records))

\* history.filter(record => record.date >= from)
Since(records, from) == SelectSeq(records, LAMBDA r : r.data.date >= from)

\* lines 256-257
Today(t) == SetHours0(t)

\* lines 262-264
StartOfWeek(t) == SetHours0(SetDate(t, GetDate(Today(t)) - GetDay(Today(t))))

\* lines 271-275: the day of the bucket made for i days back
BucketDay(t, i) == DayOf(SetHours0(SetDate(t, GetDate(t) - i)))

\* lines 278-285: the minutes added to the bucket of day d
BucketMinutes(records, t, d) ==
    SumMinutes(SelectSeq(Since(records, StartOfWeek(t)),
                         LAMBDA r : DayOf(SetHours0(r.data.date)) = d))

\* lines 269-291: the chart, oldest day first
ChartData(records, t) ==
    [j \in 1..7 |->
        [ day |-> BucketDay(t, 7 - j) % 7,
          minutes |-> Round(BucketMinutes(records, t, BucketDay(t, 7 - j))) ]]

\* line 293: the number of completed chapters
RECURSIVE ChaptersRead(_, _)
ChaptersRead(subs, ids) ==
    IF ids = {} THEN 0
    ELSE LET x == CHOOSE y \in ids : TRUE
         IN  Cardinality({i \in DOMAIN subs[x].chapters :
                             subs[x].chapters[i].is_completed})
             + ChaptersRead(subs, ids \ {x})

\* lines 253-301: the body of the memo, evaluated when the clock reads t
ComputeStats(records, subs, t) ==
    [ totalMinutes |-> SumMinutes(records),
      todayMinutes |-> SumMinutes(Since(records, Today(t))),
      weeklyMinutes |-> SumMinutes(Since(records, StartOfWeek(t))),
      chaptersRead |-> ChaptersRead(subs, DOMAIN subs),
      chartData |-> ChartData(records, t) ]

\* line 302: the value of the memo, evaluated when history or subjects
\* last changed
Stats == ComputeStats(history, subjects, statsAt)

\* line 148: hist.sort((a, b) => b.date - a.date), a stable sort
RECURSIVE InsertByDate(_, _)
InsertByDate(sorted, r) ==
    IF sorted = << >> THEN << r >>
    ELSE IF Head(sorted).data.date >= r.data.date
    THEN << Head(sorted) >> \o InsertByDate(Tail(sorted), r)
    ELSE << r >> \o sorted

RECURSIVE SortByDate(_)
SortByDate(records) ==
    IF records = << >> THEN << >>
    ELSE InsertByDate(SortByDate(SubSeq(records, 1, Len(records) - 1)),
                      records[Len(records)])

\* lines 146-149: the history listener; setHistory renders App again and
\* the memo is evaluated anew
OnHistorySnapshot ==
    /\ db /\ user # NoUser
    /\ history # SortByDate(store.history)
    /\ history' = SortByDate(store.history)
    /\ statsAt' = now
    /\ UNCHANGED << bootVars, store, subjects, calls >>
    /\ UNCHANGED << settings, goalsSeen, now, viewVars, fnVars, navVars >>

\* half a day passes; nothing is rendered
ClockTick ==
    /\ now < Noon(MaxDay)
    /\ now' = now + 1
    /\ UNCHANGED << bootVars, store, subjects, calls >>
    /\ UNCHANGED << mirrorVars, statsAt, viewVars, fnVars, navVars >>

\* a history document of an earlier session
StatRecord(id, chapterName, seconds, date) ==
    [ id |-> id,
      data |-> HistoryRecord("s1", "Math", chapterName,
                             DurationMinutes(seconds), "u1", date) ]

\* the history documents the store may hold: 45 minutes on Saturday 28
\* September, 100 seconds at the midnight that starts Sunday 29, half an
\* hour on Monday 30 and 20 minutes on Tuesday 1 October
StatRecords ==
    << StatRecord(0, "Algebra", 45 * 60, Noon(-1)),
       StatRecord(-1, "Sets", 100, 0),
       StatRecord(-2, "Algebra", 30 * 60, Noon(1)),
       StatRecord(-3, "Sets", 20 * 60, Noon(2)) >>

InitStats ==
    /\ SignedIn
    /\ \E d \in SeedDocs, ids \in SUBSET {0, -1, -2, -3} :
          store = [ subjects |-> [s \in SubjIds |->
                        IF s = "s1" THEN d
                        ELSE SubjectDoc("Art",
                                 << Chapter("Sketch", Min(1), Min(1), TRUE) >>)],
                    history |-> SelectSeq(StatRecords, LAMBDA r : r.id \in ids),
                    goals |-> NoGoals,
                    updates |-> {} ]
    /\ subjects = [s \in SubjIds |-> NoDoc]
    /\ calls = [k \in CallIds |-> IdleCall]
    /\ RestInit(CallIds)
    /\ currentView = "dashboard"

NextStats ==
    \/ OnSubjectsSnapshot
    \/ OnHistorySnapshot
    \/ ClockTick

SpecStats == InitStats /\ [][NextStats]_vars

\* ------------------------------------------------------------------
\* 8. The session: bootstrap, the three listeners and the writes
\* ------------------------------------------------------------------
\* lines 105, 110-117: the provider ends the user's session (the account
\* was deleted or disabled, or its token revoked); the auth listener is
\* called with null and starts a sign-in.  setUser is not called: the App
\* state keeps the user.
AuthSignedOut ==
    /\ bootPc = "listening"
    /\ authUser # NoUser /\ authUser # "unset"
    /\ authUser' = NoUser
    /\ bootPc' = "signingIn"
    /\ UNCHANGED << config, db, user, loading, error, store, subjects, calls >>
    /\ UNCHANGED << mirrorVars, clockVars, viewVars, fnVars, navVars >>

\* lines 157-161: the settings listener; a snapshot of a missing document
\* is dropped, the fields of an existing one are laid over the state
OnSettingsSnapshot ==
    /\ db /\ user # NoUser
    /\ goalsSeen # << store.goals >>
    /\ goalsSeen' = << store.goals >>
    /\ settings' = IF store.goals.exists
                   THEN Spread(settings, store.goals.data)
                   ELSE settings
    /\ UNCHANGED << bootVars, store, subjects, calls, history >>
    /\ UNCHANGED << clockVars, viewVars, fnVars, navVars >>

\* lines 189-201, 757-770: saveGoals, called by the goals view
HandleSaveGoals(dailyGoal, weeklyGoal) ==
    /\ UiRendered
    /\ db /\ user # NoUser
    /\ store' = SaveGoals(store, dailyGoal, weeklyGoal)
    /\ settings' = [dailyGoalMinutes |-> dailyGoal,
                    weeklyGoalMinutes |-> weeklyGoal]
    /\ UNCHANGED << bootVars, subjects, calls, history, goalsSeen >>
    /\ UNCHANGED << clockVars, viewVars, fnVars, navVars >>

InitSession ==
    /\ config \in BOOLEAN
    /\ db = FALSE
    /\ user = NoUser
    /\ loading = TRUE
    /\ error = NoError
    /\ bootPc = "start"
    /\ authUser = "unset"
    /\ \E h \in {<< >>, << OldRecord >>},
          g \in {NoGoals, GoalsDoc([dailyGoalMinutes |-> 30,
                                    weeklyGoalMinutes |-> 200])} :
          store = [ subjects |-> [s \in SubjIds |->
                        IF s = "s1"
                        THEN SubjectDoc("Math",
                                 << Chapter("Algebra", Min(100), Min(40), FALSE) >>)
                        ELSE NoDoc],
                    history |-> h,
                    goals |-> g,
                    updates |-> {} ]
    /\ subjects = [s \in SubjIds |-> NoDoc]
    /\ calls = [k \in CallIds |-> IdleCall]
    /\ RestInit(CallIds)
    /\ currentView = "dashboard"

NextSession ==
    \/ InitNoConfig
    \/ InitOk
    \/ InitThrows
    \/ \E u \in Uids : AuthUser(u)
    \/ AuthNull
    \/ AuthSignedOut
    \/ \E u \in Uids : SignInResolves(u)
    \/ SignInRejects
    \/ OnSubjectsSnapshot
    \/ OnHistorySnapshot
    \/ OnSettingsSnapshot
    \/ \E n \in SubjectNames : HandleAddSubject(n, << "Sets" >>)
    \/ \E d \in GoalInputs, w \in GoalInputs : HandleSaveGoals(d, w)
    \/ \E k \in DOMAIN calls : RecordReading(k, "s1", "Algebra", 100)
    \/ \E k \in DOMAIN calls : TxnAttempt(k)
    \/ \E k \in DOMAIN calls : RecordReadingReturn(k)

SpecSession == InitSession /\ [][NextSession]_vars

\* The same session where the initialization effect runs (React runs the
\* effect of line 91 after the first render), the provider calls the auth
\* listener once it is registered (line 105) and answers every sign-in
\* (lines 113-117).
BootFairness ==
    /\ WF_vars(InitNoConfig \/ InitOk \/ InitThrows)
    /\ WF_vars((\E u \in Uids : AuthUser(u)) \/ AuthNull)
    /\ WF_vars((\E u \in Uids : SignInResolves(u)) \/ SignInRejects)

SpecSessionFair == InitSession /\ [][NextSession]_vars /\ BootFairness

\* ------------------------------------------------------------------
\* 9. Navigation and the admin panel (lines 333-357, 875-922, 1003-1019)
\* ------------------------------------------------------------------
\* line 14
ADMIN_UID == "XFLA7wfuLJgH7jgtRtigjbtDooM2"

\* the users the provider may sign in where the admin panel is followed
AllUids == Uids \cup {ADMIN_UID}

\* every signed-in user is taken for the administrator
IsAdminAnyUser == user # NoUser

\* lines 85-86: isAdmin = currentUserId === ADMIN_UID
IsAdmin == user = ADMIN_UID

\* lines 339-343: the views the navigation bar has a button for
NavViews ==
    {"dashboard", "tracking", "subjects", "goals"}
        \cup (IF IsAdmin THEN {"admin"} ELSE {})

\* lines 349-351, 1003-1019: a navigation button is pressed; the view
\* shown before is unmounted
Navigate(v) ==
    /\ UiRendered
    /\ v \in NavViews
    /\ v # currentView
    /\ currentView' = v
    /\ admin' = [admin EXCEPT !.ranFor = "none"]
    /\ UNCHANGED << bootVars, store, subjects, calls >>
    /\ UNCHANGED << mirrorVars, clockVars, viewVars, fnVars >>

\* lines 909-913: the effect of the AdminPanelView, run when the view is
\* mounted and when the user has changed; it calls fetchAllHistory
\* (lines 884-907) for the administrator only
AdminEffect ==
    /\ UiRendered
    /\ currentView = "admin"
    /\ admin.ranFor # user
    /\ admin' = [ ranFor |-> user,
                  issuedFor |-> IF IsAdmin /\ db
                                THEN admin.issuedFor \cup {user}
                                ELSE admin.issuedFor ]
    /\ UNCHANGED << bootVars, store, subjects, calls, currentView >>
    /\ UNCHANGED << mirrorVars, clockVars, viewVars, fnVars >>

\* lines 915-931: what the AdminPanelView renders
AdminShows ==
    IF UiRendered /\ currentView = "admin"
    THEN (IF IsAdmin THEN "report" ELSE "denied")
    ELSE "none"

InitAdmin ==
    /\ config = TRUE
    /\ db = FALSE
    /\ user = NoUser
    /\ loading = TRUE
    /\ error = NoError
    /\ bootPc = "start"
    /\ authUser = "unset"
    /\ \E h \in {<< >>, << OldRecord >>} :
          store = [ subjects |-> [s \in SubjIds |-> NoDoc],
                    history |-> h,
                    goals |-> NoGoals,
                    updates |-> {} ]
    /\ subjects = [s \in SubjIds |-> NoDoc]
    /\ calls = [k \in CallIds |-> IdleCall]
    /\ RestInit(CallIds)
    /\ currentView = "dashboard"

NextAdmin ==
    \/ InitOk
    \/ InitThrows
    \/ \E u \in AllUids : AuthUser(u)
    \/ AuthNull
    \/ AuthSignedOut
    \/ \E u \in AllUids : SignInResolves(u)
    \/ SignInRejects
    \/ OnHistorySnapshot
    \/ \E v \in {"dashboard", "tracking", "subjects", "goals", "admin"} :
          Navigate(v)
    \/ AdminEffect

SpecAdmin == InitAdmin /\ [][NextAdmin]_vars

\* ==================================================================
\* Statements
\* ==================================================================
\* the failures of the store itself: contention exhaustion, connectivity
\* loss, permission denial
StoreFaults == {"aborted", "unavailable", "permission-denied"}

\* the history documents written for invocation k
RecordsOf(k) ==
    {i \in DOMAIN store.history : store.history[i].id = HistoryRef(k)}

\* invocation k has returned, was given a duration of at least a second
\* and a subject and chapter that existed, and the store reported no
\* failure of its own
Completed(k) ==
    /\ calls[k].pc = "done"
    /\ calls[k].durationSeconds >= 1
    /\ calls[k].existed
    /\ calls[k].error \notin StoreFaults

\* the chapter invocation k was aimed at, as the store holds it now
ChapterNow(k) ==
    ChapterOf(store.subjects[calls[k].subjectId], calls[k].chapterName)

\* no other invocation was aimed at the chapter of invocation k
Sole(k) ==
    \A j \in (DOMAIN calls) \ {k} :
        \/ calls[j].pc = "idle"
        \/ calls[j].subjectId # calls[k].subjectId
        \/ calls[j].chapterName # calls[k].chapterName

\* ---- C1 ----------------------------------------------------------
\* C1: in every state of the store, for an invocation on a subject and
\* chapter that exist, the invocation's history document is in the history
\* collection if and only if its subject update was written; and once the
\* transaction has failed with the history insert buffered, neither write
\* is in the store.
C1_Atomic ==
    \A k \in DOMAIN calls :
        (calls[k].pc # "idle" /\ calls[k].existed) =>
            /\ (RecordsOf(k) # {}) <=> (HistoryRef(k) \in store.updates)
            /\ (calls[k].error # NoError /\ calls[k].mutations # << >>) =>
                   (RecordsOf(k) = {} /\ HistoryRef(k) \notin store.updates)

\* a transaction on an existing subject and chapter failed after its
\* history insert was buffered and before any subject update
C1_Witness ==
    \E k \in DOMAIN calls :
        /\ calls[k].existed
        /\ calls[k].pc \in {"settled", "done"}
        /\ calls[k].error # NoError
        /\ Len(calls[k].mutations) = 1
        /\ calls[k].mutations[1].op = "set"

\* ---- C2 ----------------------------------------------------------
\* C2: once recordReading has returned for a duration of at least one
\* second on an existing subject and chapter, with no failure of the
\* store, it has returned true and exactly one history document of that
\* call exists; it carries the subjectId and the chapterName, and its
\* durationMinutes is within 0.01 (3 units) of durationSeconds / 60.
C2_OneRecord ==
    \A k \in DOMAIN calls :
        Completed(k) =>
            /\ calls[k].result = "true"
            /\ Cardinality(RecordsOf(k)) = 1
            /\ Len(store.history) >= calls[k].preLen + 1
            /\ \A i \in RecordsOf(k) :
                  LET r == store.history[i].data
                      diff == r.durationMinutes - 5 * calls[k].durationSeconds
                  IN  /\ r.subjectId = calls[k].subjectId
                      /\ r.chapterName = calls[k].chapterName
                      /\ diff <= 3 /\ diff >= -3

\* ---- C3 ----------------------------------------------------------
\* C3: once such a call has returned, and no other call was aimed at the
\* same chapter, the chapter's read exceeds its value at the call by
\* exactly the durationMinutes of the call's history document.
C3_ReadIncrease ==
    \A k \in DOMAIN calls :
        (Completed(k) /\ Sole(k)) =>
            /\ RecordsOf(k) # {}
            /\ \A i \in RecordsOf(k) :
                  ChapterNow(k).read - calls[k].preRead
                      = store.history[i].data.durationMinutes

\* ---- C4 ----------------------------------------------------------
\* C4: every step of an invocation whose transaction has failed leaves
\* the store as it was, and the invocation returns false.
C4_FailureIsClean ==
    [][ \A k \in DOMAIN calls :
          (calls'[k].error # NoError /\ calls'[k] # calls[k]) =>
              /\ store' = store
              /\ (calls'[k].pc = "done" => calls'[k].result = "false") ]_vars

\* an invocation whose transaction failed has returned
C4_Witness ==
    \E k \in DOMAIN calls :
        /\ calls[k].pc = "done"
        /\ calls[k].error # NoError
        /\ calls[k].mutations # << >>
        /\ calls[k].result = "false"

\* ---- C5 ----------------------------------------------------------
\* C5: once two calls aimed at the same existing chapter have both
\* returned, with no failure of the store, both returned true, the
\* chapter's read has grown by the sum of the two durations and two
\* history documents were added.
C5_NoLostUpdate ==
    \A k \in DOMAIN calls, j \in DOMAIN calls :
        ( /\ k < j
          /\ Completed(k) /\ Completed(j)
          /\ calls[j].subjectId = calls[k].subjectId
          /\ calls[j].chapterName = calls[k].chapterName
          /\ \A o \in (DOMAIN calls) \ {k, j} : calls[o].pc = "idle" ) =>
            /\ calls[k].result = "true" /\ calls[j].result = "true"
            /\ ChapterNow(k).read = calls[k].preRead
                   + calls[k].durationMinutes + calls[j].durationMinutes
            /\ Len(store.history) = calls[k].preLen + 2

\* ---- C6 ----------------------------------------------------------
\* C6: a call with durationSeconds < 1 ends in its first step: it returns
\* undefined, starts no transaction, buffers no write, and leaves the
\* whole store as it was.
C6_BelowThreshold ==
    [][ \A k \in DOMAIN calls :
          ( /\ calls[k].pc = "idle"
            /\ calls'[k].pc # "idle"
            /\ calls'[k].durationSeconds < 1 ) =>
              /\ store' = store
              /\ calls'[k].pc = "done"
              /\ calls'[k].result = "undefined"
              /\ calls'[k].mutations = << >> ]_vars

\* a signed-in session made a call below the threshold
C6_Witness ==
    \E k \in DOMAIN calls :
        /\ calls[k].pc = "done"
        /\ calls[k].durationSeconds < 1
        /\ calls[k].existed
        /\ db /\ user # NoUser

\* ---- C7 ----------------------------------------------------------
\* C7: once a call aimed at a chapter with total > 0 has returned true - as
\* it does when the store reports no failure - the chapter's read is its
\* value at the call plus the duration, and is_completed is true if and
\* only if that read >= total.
C7_Completion ==
    \A k \in DOMAIN calls :
        (Completed(k) /\ Sole(k) /\ ChapterNow(k).total > 0) =>
            /\ calls[k].result = "true"
            /\ ChapterNow(k).read = calls[k].preRead + calls[k].durationMinutes
            /\ ChapterNow(k).is_completed
                   <=> (ChapterNow(k).read >= ChapterNow(k).total)

C9_NotIdempotent ==
    \A k \in DOMAIN calls, j \in DOMAIN calls :
        ( /\ k < j
          /\ Completed(k) /\ Completed(j)
          /\ calls[j].subjectId = calls[k].subjectId
          /\ calls[j].chapterName = calls[k].chapterName
          /\ calls[j].durationSeconds = calls[k].durationSeconds
          /\ \A o \in (DOMAIN calls) \ {k, j} : calls[o].pc = "idle" ) =>
            /\ calls[k].result = "true" /\ calls[j].result = "true"
            /\ RecordsOf(k) # {} /\ RecordsOf(j) # {}
            /\ RecordsOf(k) \cap RecordsOf(j) = {}
            /\ ChapterNow(k).read =
                   calls[k].preRead + 2 * calls[k].durationMinutes

\* ---- C10 ---------------------------------------------------------
\* C10: once a call of at least one second for a subjectId with no Subject
\* document has returned, with no failure of the store, its history
\* document is in the history collection and there is still no Subject
\* document of that id.
C10_MissingSubject ==
    \A k \in DOMAIN calls :
        ( /\ calls[k].pc = "done"
          /\ calls[k].durationSeconds >= 1
          /\ calls[k].error \notin StoreFaults
          /\ ~store.subjects[calls[k].subjectId].exists ) =>
            /\ RecordsOf(k) # {}
            /\ HistoryRef(k) \notin store.updates

\* C11: the subject write of recordReading changes only the chapters of
\* subject subjectId whose name is chapterName: every other chapter of
\* that subject, the subject's name and every other Subject document are
\* as they were.
C11_Frame ==
    [][ (wrote'.kind = "record" /\ wrote'.n # wrote.n) =>
          LET t == wrote'.subjectId
              before == store.subjects[t]
              after == store'.subjects[t]
          IN  /\ \A s \in SubjIds \ {t} : store'.subjects[s] = store.subjects[s]
              /\ after.exists = before.exists
              /\ after.name = before.name
              /\ Len(after.chapters) = Len(before.chapters)
              /\ \A i \in DOMAIN before.chapters :
                     before.chapters[i].name # wrote'.chapterName
                         => after.chapters[i] = before.chapters[i] ]_vars

\* a recording of 100 seconds of Algebra has raised Algebra and left Sets
\* and the other subject as they were
C11_Witness ==
    /\ wrote.kind = "record" /\ wrote.n = 1
    /\ wrote.subjectId = "s1" /\ wrote.chapterName = "Algebra"
    /\ store.subjects["s1"].chapters =
           << Chapter("Algebra", Min(2), Min(1) + DurationMinutes(100), TRUE),
              Chapter("Sets", 0, 0, FALSE) >>
    /\ store.subjects["s2"] = SubjectDoc("Art", << >>)

\* C12: no write of the program lowers the read value of a chapter, over
\* every sequence of recordReading calls (with or without effect) and of
\* the other writes.
C12_ReadMonotone ==
    [][ \A s \in SubjIds : \A i \in DOMAIN store.subjects[s].chapters :
          /\ i \in DOMAIN store'.subjects[s].chapters
          /\ store'.subjects[s].chapters[i].read
                 >= store.subjects[s].chapters[i].read ]_vars

\* two recordings of 100 seconds have raised the chapter twice
C12_Witness ==
    /\ wrote.kind = "record" /\ wrote.n = 2
    /\ store.subjects["s1"].exists
    /\ HasChapter(store.subjects["s1"], "Algebra")
    /\ ChapterOf(store.subjects["s1"], "Algebra").read
           = Min(40) + 2 * DurationMinutes(100)

\* C13: the history collection is an append-only log: under the writes
\* of saveSubject, saveGoals and recordReading every history document
\* stays where it is with its id and all its fields.
C13_AppendOnly ==
    [][ \A i \in DOMAIN store.history :
          /\ i \in DOMAIN store'.history
          /\ store'.history[i] = store.history[i] ]_vars

\* the record of an earlier session is still the first after a recording
\* and a saveGoals
C13_Witness ==
    /\ wrote.kind = "goals" /\ wrote.n = 2
    /\ Len(store.history) = 2
    /\ store.history[1] = OldRecord
    /\ store.history[2].id = HistoryRef(1)

\* C14: when handleRecord resumes with a result of recordReading other
\* than true, the elapsed seconds of the view are left as they are: a
\* save clears the timer only when recordReading returned true.
C14_TimeKeptOnFailure ==
    [][ \A k \in DOMAIN awaits :
          (awaits[k].pc = "waiting" /\ awaits'[k].pc = "finished"
                                    /\ calls[k].result # "true")
              => view'.time = view.time ]_vars

\* a save has failed and the stopped timer still shows the seconds that
\* were passed to recordReading
C14_Witness ==
    /\ awaits[1].pc = "finished" /\ awaits[1].mounted
    /\ calls[1].result = "false"
    /\ ~view.isRunning
    /\ view.time = MaxTime
    /\ calls[1].durationSeconds = view.time

\* C15: between a Start and the next Start, the tracking view invokes
\* recordReading at most once.
C15_OncePerSession == view.sessionCalls <= 1

\* the timer was started, ran and was stopped, and recordReading was
\* invoked for it once
C15_Witness ==
    /\ view.sessionCalls = 1
    /\ ~view.isRunning
    /\ calls[1].pc # "idle" /\ calls[1].durationSeconds = view.time
    /\ calls[2].pc = "idle"

\* the history records of the in-memory snapshot dated on day d
RecordsOn(d) == SelectSeq(history, LAMBDA r : DayOf(r.data.date) = d)

\* C16: chartData has 7 entries, for the 7 days ending on the day of the
\* reference time, oldest first, and each entry is the sum of the
\* durationMinutes of all history records dated on its day.
C16_ChartPerDay ==
    /\ Len(Stats.chartData) = 7
    /\ \A j \in 1..7 :
          Stats.chartData[j].minutes
              = SumMinutes(RecordsOn(DayOf(statsAt) - (7 - j)))

\* the Sunday of day d, the day itself when it is a Sunday
SundayOf(d) == d - (d % 7)

\* C17: weeklyMinutes is the sum of durationMinutes over the history
\* records dated on or after the local midnight that starts the most
\* recent Sunday, also when that Sunday lies in the previous month.
C17_WeeklyMinutes ==
    Stats.weeklyMinutes
        = SumMinutes(SelectSeq(history,
              LAMBDA r : r.data.date >= 2 * SundayOf(DayOf(statsAt))))

\* the statistics were evaluated on Tuesday 1 October with records of
\* Saturday 28, Sunday 29 and Monday 30 September in the history: the
\* week started in the previous month and the week's records are counted
C17_Witness ==
    /\ DayOf(statsAt) = 2
    /\ Len(history) >= 3
    /\ \E i \in DOMAIN history : history[i].data.date = Noon(-1)
    /\ Stats.weeklyMinutes = ToFixed2(DurationMinutes(100)) + Min(30)

\* C18: the statistics displayed are the derivation applied to the
\* current history, the current subjects and the current time.
C18_StatsCurrent == Stats = ComputeStats(history, subjects, now)

\* C19: every update a listener delivers replaces the in-memory value of
\* its stream: after the subjects, history or settings listener has
\* run, the App state of that stream is the delivered snapshot (the
\* history in the order of the dates) and holds nothing else.
C19_SnapshotReplaces ==
    [][ /\ subjects' # subjects => subjects' = store.subjects
        /\ history' # history => history' = SortByDate(store.history)
        /\ goalsSeen' # goalsSeen =>
               /\ store.goals.exists
               /\ settings' = store.goals.data ]_vars

\* C20: once the app is in the error state it stays there: the error is
\* kept, no sign-in is started, no data subscription is opened and the
\* store is not written.
C20_ErrorIsFinal ==
    [][ error # NoError =>
          /\ error' = error
          /\ bootPc' = "signingIn" => bootPc = "signingIn"
          /\ (db' /\ user' # NoUser) => (db /\ user # NoUser)
          /\ store' = store ]_vars

\* the sign-in that followed the end of the user's session was rejected:
\* the app is in the error state with db and a user in its state
C20_Witness ==
    /\ error = "signin"
    /\ db /\ user # NoUser
    /\ ~loading
    /\ authUser = NoUser

\* C21: in every reachable state the chapter names within one Subject
\* document are pairwise distinct.
C21_DistinctNames ==
    \A s \in SubjIds : \A i, j \in DOMAIN store.subjects[s].chapters :
        store.subjects[s].chapters[i].name = store.subjects[s].chapters[j].name
            => i = j

\* C22: the admin history fetch is issued for the administrator only,
\* and while the current user is not ADMIN_UID the admin view, if it is
\* the current view, shows the access-denied state; this for every
\* sequence of view changes and of users.
C22_AdminOnly ==
    /\ admin.issuedFor \subseteq {ADMIN_UID}
    /\ user # ADMIN_UID => AdminShows \in {"none", "denied"}
    /\ (user # ADMIN_UID /\ UiRendered /\ currentView = "admin")
           => AdminShows = "denied"

\* the administrator opened the admin panel, the session ended and
\* another user was signed in: the admin view is still the current view,
\* its effect has run for that user, and no fetch was issued for that user
C22_Witness ==
    /\ UiRendered
    /\ currentView = "admin"
    /\ user \in Uids
    /\ admin.ranFor = user
    /\ admin.issuedFor = {ADMIN_UID}

\* the writes invocation k had buffered when it issued its read (line 226
\* follows lines 214-222)
BufferedAtRead(k) == HistoryWrites(k, calls[k])

\* C23: in each transaction attempt of recordReading the Subject document
\* is read before any write is staged.
C23_ReadThenWrite ==
    \A k \in DOMAIN calls :
        calls[k].pc \in {"settled", "done"} /\ calls[k].result # "undefined"
            => BufferedAtRead(k) = << >>

\* the seconds passed to the invocations among ids that returned true
RECURSIVE SavedSeconds(_)
SavedSeconds(ids) ==
    IF ids = {} THEN 0
    ELSE LET k == CHOOSE x \in ids : TRUE
         IN  (IF calls[k].result = "true" THEN calls[k].durationSeconds ELSE 0)
             + SavedSeconds(ids \ {k})

C25_NoEmptyRecording ==
    [][ /\ (~view.isRunning /\ view'.isRunning)
              => (view.selectedSubjectId # "" /\ view.selectedChapterName # "")
        /\ \A k \in DOMAIN calls :
              (calls[k].pc = "idle" /\ calls'[k].pc # "idle")
                  => /\ calls'[k].subjectId # ""
                     /\ calls'[k].chapterName # ""
                     /\ calls'[k].durationSeconds # 0 ]_vars

\* the timer was stopped with a recording and runs again, on another
\* chapter than the one recorded
C25_Witness ==
    /\ view.isRunning
    /\ calls[1].pc # "idle"
    /\ calls[1].chapterName = "Algebra"
    /\ view.selectedChapterName = "Sets"
    /\ calls[2].pc = "idle"

\* C26: the bootstrap terminates: the app eventually leaves the loading
\* state, it is then either in the error state or has a user, and it
\* never returns to loading.
C26_BootTerminates ==
    /\ <>[](~loading)
    /\ [](~loading => (error # NoError \/ user # NoUser))
    /\ [][loading' => loading]_vars

\* the auth listener was called with a user and the app has left
\* loading with that user and no error
C26_Witness ==
    /\ ~loading
    /\ error = NoError
    /\ user \in Uids /\ authUser = user
    /\ bootPc = "listening"

====
